---- MODULE Spec2Model ----
(***************************************************************************)
(* KiBot position output (kibot/out_position.py): PositionOptions.run and *)
(* the two writers _do_position_plot_ascii / _do_position_plot_csv.        *)
(* Strings are sequences of one-character strings, so that lengths,        *)
(* padding, quoting and ordering are computed as Python computes them.     *)
(***************************************************************************)
EXTENDS Integers, Sequences, FiniteSets, TLC

VARIABLES opts, board, sch, pc, comps, comps_hash, order, idx, modules,
          maxlengths, ri, files, events

vars == <<opts, board, sch, pc, comps, comps_hash, order, idx, modules,
          maxlengths, ri, files, events>>

\* ------------------------------------------------------------ constants
UI_THT == 0
UI_SMD == 1
UI_VIRTUAL == 2
IU_PER_MM == 1000000
IU_PER_MILS == 25400

\* ------------------------------------------------------------ bounds
MaxModules == 2
MaxComps == 2

\* ------------------------------------------------------------ strings
Max(a, b) == IF a >= b THEN a ELSE b

\* Code point of a character (the ones footprint references are made of).
Ord(c) ==
  CASE c = " " -> 32 [] c = "\"" -> 34 [] c = "," -> 44
    [] c = "0" -> 48 [] c = "1" -> 49 [] c = "2" -> 50
    [] c = "C" -> 67 [] c = "R" -> 82 [] c = "U" -> 85
    [] c = "a" -> 97 [] c = "b" -> 98 [] c = "k" -> 107

\* Python's str <= str: lexicographic by code point, a proper prefix first.
RECURSIVE StrLE(_, _)
StrLE(a, b) ==
  IF a = <<>> THEN TRUE
  ELSE IF b = <<>> THEN FALSE
  ELSE IF Head(a) = Head(b) THEN StrLE(Tail(a), Tail(b))
  ELSE Ord(Head(a)) < Ord(Head(b))

Spaces(n) == [i \in 1..n |-> " "]

\* "{0: <{width}}".format(s, width=w): left-justified, never truncated.
Ljust(s, w) == IF Len(s) >= w THEN s ELSE s \o Spaces(w - Len(s))

DigitChar(d) == <<"0", "1", "2", "3", "4", "5", "6", "7", "8", "9">>[d + 1]

RECURSIVE Digits(_)
Digits(n) == IF n < 10 THEN <<DigitChar(n)>>
             ELSE Digits(n \div 10) \o <<DigitChar(n % 10)>>

\* "{:.4f}".format(v) for the value v = (neg ? -1 : 1) * s / 10^4, s >= 0
\* already rounded to four decimals.  A negative value that rounds to zero
\* keeps its sign ("-0.0000").
FmtF4(neg, s) ==
  (IF neg THEN <<"-">> ELSE <<>>) \o Digits(s \div 10000) \o <<".">> \o
  <<DigitChar((s \div 1000) % 10), DigitChar((s \div 100) % 10),
    DigitChar((s \div 10) % 10), DigitChar(s % 10)>>

\* |v| / d rounded to the nearest integer.
RoundDiv(v, d) == LET a == IF v < 0 THEN -v ELSE v IN (2 * a + d) \div (2 * d)

\* conv is 1.0/IU_PER_MM or 0.001/IU_PER_MILS; the value is printed with four
\* decimals, so coordinate * conv * 10^4 is coordinate / ConvDiv(units).
ConvDiv(units) == IF units = "millimeters" THEN IU_PER_MM \div 10000
                  ELSE (IU_PER_MILS * 1000) \div 10000

FmtCoord(v, units) == FmtF4(v < 0, RoundDiv(v, ConvDiv(units)))

S_top == <<"t", "o", "p">>
S_bottom == <<"b", "o", "t", "t", "o", "m">>

columns == << <<"R", "e", "f">>, <<"V", "a", "l">>,
              <<"P", "a", "c", "k", "a", "g", "e">>,
              <<"P", "o", "s", "X">>, <<"P", "o", "s", "Y">>,
              <<"R", "o", "t">>, <<"S", "i", "d", "e">> >>
colcount == Len(columns)

\* ------------------------------------------------------------ pure parts
\* sorted(board.GetModules(), key=operator.methodcaller('GetReference')):
\* a stable sort, so x goes after every element whose key is <= its own.
RECURSIVE InsertByRef(_, _)
InsertByRef(x, s) ==
  IF s = <<>> THEN <<x>>
  ELSE IF StrLE(Head(s).ref, x.ref) THEN <<Head(s)>> \o InsertByRef(x, Tail(s))
  ELSE <<x>> \o s

RECURSIVE SortedByRef(_)
SortedByRef(s) ==
  IF s = <<>> THEN <<>>
  ELSE InsertByRef(s[Len(s)], SortedByRef(SubSeq(s, 1, Len(s) - 1)))

\* Mutant: the footprints are taken in board order.
BoardOrder(b) == b

SortedModules(b) == SortedByRef(b)

\* apply_fitted_filter(comps, self.dnf_filter): with a filter, a fitted
\* component stays fitted only if the filter accepts it.
FittedFiltered(list, has_filter) ==
  IF has_filter
  THEN [i \in 1..Len(list) |->
          [list[i] EXCEPT !.fitted = list[i].fitted /\ ~list[i].dnf]]
  ELSE list

\* self.variant.filter(comps): the variant marks the components it leaves out.
VariantFiltered(list) ==
  [i \in 1..Len(list) |->
     [list[i] EXCEPT !.fitted = list[i].fitted /\ ~list[i].var]]

\* Mutant: the first component with a reference is the one kept.
HashCompsFirst(list) ==
  [r \in {list[i].ref : i \in 1..Len(list)} |->
     list[CHOOSE i \in 1..Len(list) :
            /\ list[i].ref = r
            /\ \A j \in 1..Len(list) : list[j].ref = r => i <= j]]

\* {c.ref: c for c in comps}: a later component replaces an earlier one
\* with the same reference.
HashComps(list) ==
  [r \in {list[i].ref : i \in 1..Len(list)} |->
     list[CHOOSE i \in 1..Len(list) :
            /\ list[i].ref = r
            /\ \A j \in 1..Len(list) : list[j].ref = r => j <= i]]

\* "if comps:" ... "if c and not c.fitted: continue"
NotFitted(m) ==
  /\ comps.loaded /\ comps.list # <<>>
  /\ m.ref \in DOMAIN comps_hash
  /\ ~comps_hash[m.ref].fitted

\* Mutant: without only_smd every footprint passes, virtual ones too.
PassesMountVirtual(m) == (opts.only_smd /\ m.attr = UI_SMD) \/ ~opts.only_smd

\* The position options check.
PassesMount(m) ==
  \/ (opts.only_smd /\ m.attr = UI_SMD)
  \/ (~opts.only_smd /\ m.attr # UI_VIRTUAL)

\* The row appended to modules.
Row(m) ==
  << m.ref, m.value, m.package,
     FmtCoord(m.x, opts.units), FmtCoord(-m.y, opts.units),
     FmtF4(m.rot < 0, IF m.rot < 0 THEN -m.rot ELSE m.rot),
     IF m.flipped THEN S_bottom ELSE S_top >>

\* Mutant: the loop over the rows stops one row short.
MaxLengthsButLast(rows) ==
  LET RECURSIVE Upto(_, _)
      Upto(n, col) == IF n <= 0 THEN 0
                      ELSE Max(Upto(n - 1, col), Len(rows[n][col]))
  IN  [col \in 1..colcount |-> Upto(Len(rows) - 1, col)]

\* maxlengths after the loop over all rows and columns.
MaxLengths(rows) ==
  LET RECURSIVE Upto(_, _)
      Upto(n, col) == IF n = 0 THEN 0
                      ELSE Max(Upto(n - 1, col), Len(rows[n][col]))
  IN  [col \in 1..colcount |-> Upto(Len(rows), col)]

\* maxSizes[0] = maxSizes[0] + 2
AdjustedSizes(sizes) == [sizes EXCEPT ![1] = sizes[1] + 2]

Sep3 == <<" ", " ", " ">>

\* The write() arguments of one line: cells padded to sizes, "   " between.
Cells(vals, sizes) ==
  [i \in 1..(2 * Len(vals) - 1) |->
     IF i % 2 = 1 THEN Ljust(vals[(i + 1) \div 2], sizes[(i + 1) \div 2])
     ELSE Sep3]

HeaderChunks(sizes) == << <<"#", " ">> >> \o Cells(columns, sizes)
RowChunks(m, sizes) == Cells(m, sizes)

RECURSIVE JoinComma(_)
JoinComma(ss) == IF ss = <<>> THEN <<>>
                 ELSE IF Len(ss) = 1 THEN ss[1]
                 ELSE ss[1] \o <<",">> \o JoinComma(Tail(ss))

\* '"{}"'.format(e)
Quoted(e) == <<"\"">> \o e \o <<"\"">>

CsvHeaderText == JoinComma(columns)
CsvRowText(m) == JoinComma([k \in 1..Len(m) |-> Quoted(m[k])])

\* Mutant: the test of the side is inverted.
FileOfInverted(m) == IF files["both"].st # "none" THEN "both"
                     ELSE IF m[Len(m)] = S_top THEN "bot" ELSE "top"

\* The file a row goes to: bothf, else topf if m[-1] == "top", else botf.
FileOf(m) == IF files["both"].st # "none" THEN "both"
             ELSE IF m[Len(m)] = S_top THEN "top" ELSE "bot"

\* ------------------------------------------------------------ files
FileNames == {"top", "bot", "both"}
NoFile == [st |-> "none", lines |-> <<>>, opens |-> 0, closes |-> 0, bad |-> 0]

Line(kind, text, chunks, row) ==
  [kind |-> kind, text |-> text, chunks |-> chunks, row |-> row]

Opened(f) == [f EXCEPT !.st = "open", !.opens = f.opens + 1]
Closed(f) == [f EXCEPT !.st = "closed", !.closes = f.closes + 1]

\* f.write(...): the line is appended; a write to a file that is not open
\* is counted in bad.
Written(f, ls) ==
  [f EXCEPT !.lines = f.lines \o ls,
            !.bad = f.bad + (IF f.st = "open" THEN 0 ELSE Len(ls))]

\* files = [f for f in [topf, botf, bothf] if f is not None]
InFiles(n) == files[n].st # "none"

\* "for f in files: f.write(...)": ls[n] is what file n receives.
WriteAll(ls) ==
  files' = [n \in FileNames |->
              IF InFiles(n) THEN Written(files[n], ls[n]) ELSE files[n]]

UnitName == IF opts.units = "millimeters" THEN "mm" ELSE "in"
\* Mutant: every file is given the side line of the single file.
SideNameBoth(n) == "both"
SideName(n) == IF n = "top" THEN "top" ELSE IF n = "bot" THEN "bottom" ELSE "both"

\* ------------------------------------------------------------ run
\* Mutant: the schematic is loaded whatever the options.
LoadSchAlways ==
  /\ pc = "start"
  /\ comps' = [loaded |-> TRUE,
               list |-> [i \in 1..Len(sch) |->
                           [ref |-> sch[i].ref, fitted |-> TRUE,
                            in_bom |-> sch[i].in_bom,
                            dnf |-> sch[i].dnf, var |-> sch[i].var]]]
  /\ events' = Append(events, "load_sch")
  /\ pc' = "fitted"
  /\ UNCHANGED <<opts, board, sch, comps_hash, order, idx, modules,
                 maxlengths, ri, files>>

\* comps = None; if self.dnf_filter or self.variant: load_sch() ...
LoadSch ==
  /\ pc = "start"
  /\ opts.dnf_filter \/ opts.variant
  /\ comps' = [loaded |-> TRUE,
               list |-> [i \in 1..Len(sch) |->
                           [ref |-> sch[i].ref, fitted |-> TRUE,
                            in_bom |-> sch[i].in_bom,
                            dnf |-> sch[i].dnf, var |-> sch[i].var]]]
  /\ events' = Append(events, "load_sch")
  /\ pc' = "fitted"
  /\ UNCHANGED <<opts, board, sch, comps_hash, order, idx, modules,
                 maxlengths, ri, files>>

NoSch ==
  /\ pc = "start"
  /\ ~(opts.dnf_filter \/ opts.variant)
  /\ pc' = "sort"
  /\ UNCHANGED <<opts, board, sch, comps, comps_hash, order, idx, modules,
                 maxlengths, ri, files, events>>

ApplyFittedFilter ==
  /\ pc = "fitted"
  /\ comps' = [comps EXCEPT !.list = FittedFiltered(comps.list, opts.dnf_filter)]
  /\ events' = Append(events, "fitted_filter")
  /\ pc' = IF opts.variant THEN "variant" ELSE "hash"
  /\ UNCHANGED <<opts, board, sch, comps_hash, order, idx, modules,
                 maxlengths, ri, files>>

ApplyVariant ==
  /\ pc = "variant"
  /\ comps' = [comps EXCEPT !.list = VariantFiltered(comps.list)]
  /\ events' = Append(events, "variant_filter")
  /\ pc' = "hash"
  /\ UNCHANGED <<opts, board, sch, comps_hash, order, idx, modules,
                 maxlengths, ri, files>>

BuildHash ==
  /\ pc = "hash"
  /\ comps_hash' = HashComps(comps.list)
  /\ pc' = "sort"
  /\ UNCHANGED <<opts, board, sch, comps, order, idx, modules,
                 maxlengths, ri, files, events>>

SortBoard ==
  /\ pc = "sort"
  /\ order' = SortedModules(board)
  /\ idx' = 1
  /\ modules' = <<>>
  /\ pc' = "examine"
  /\ UNCHANGED <<opts, board, sch, comps, comps_hash, maxlengths, ri, files,
                 events>>

\* One iteration of "for m in sorted(...)".
Examine ==
  /\ pc = "examine"
  /\ idx <= Len(order)
  /\ LET m == order[idx] IN
       modules' = IF ~NotFitted(m) /\ PassesMount(m)
                  THEN Append(modules, Row(m)) ELSE modules
  /\ idx' = idx + 1
  /\ events' = Append(events, "examine")
  /\ UNCHANGED <<opts, board, sch, pc, comps, comps_hash, order, maxlengths,
                 ri, files>>

FindMaxLengths ==
  /\ pc = "examine"
  /\ idx > Len(order)
  /\ maxlengths' = MaxLengths(modules)
  /\ pc' = "plot"
  /\ UNCHANGED <<opts, board, sch, comps, comps_hash, order, idx, modules,
                 ri, files, events>>

AfterOpen == IF opts.format = "ASCII" THEN "a_head" ELSE "c_head"

OpenSeparate ==
  /\ pc = "plot"
  /\ opts.separate_files_for_front_and_back
  /\ files' = [files EXCEPT !["top"] = Opened(@), !["bot"] = Opened(@)]
  /\ events' = events \o <<"open", "open">>
  /\ pc' = AfterOpen
  /\ UNCHANGED <<opts, board, sch, comps, comps_hash, order, idx, modules,
                 maxlengths, ri>>

OpenBoth ==
  /\ pc = "plot"
  /\ ~opts.separate_files_for_front_and_back
  /\ files' = [files EXCEPT !["both"] = Opened(@)]
  /\ events' = Append(events, "open")
  /\ pc' = AfterOpen
  /\ UNCHANGED <<opts, board, sch, comps, comps_hash, order, idx, modules,
                 maxlengths, ri>>

\* open() raises: for two files either the first open fails, or the second
\* one does and the first file stays open.
OpenFails ==
  /\ pc = "plot"
  /\ \/ UNCHANGED <<files, events>>
     \/ /\ opts.separate_files_for_front_and_back
        /\ files' = [files EXCEPT !["top"] = Opened(@)]
        /\ events' = Append(events, "open")
  /\ pc' = "raised"
  /\ UNCHANGED <<opts, board, sch, comps, comps_hash, order, idx, modules,
                 maxlengths, ri>>

AsciiHeader ==
  /\ pc = "a_head"
  /\ WriteAll([n \in FileNames |->
       << Line("created", "### Module positions - created on {} ###\n", <<>>, <<>>),
          Line("printed", "### Printed by KiBot\n", <<>>, <<>>),
          Line("unit", UnitName, <<>>, <<>>) >>])
  /\ pc' = "a_side"
  /\ UNCHANGED <<opts, board, sch, comps, comps_hash, order, idx, modules,
                 maxlengths, ri, events>>

AsciiSide ==
  /\ pc = "a_side"
  /\ WriteAll([n \in FileNames |-> << Line("side", SideName(n), <<>>, <<>>) >>])
  /\ pc' = "a_cols"
  /\ UNCHANGED <<opts, board, sch, comps, comps_hash, order, idx, modules,
                 maxlengths, ri, events>>

AsciiColumns ==
  /\ pc = "a_cols"
  /\ WriteAll([n \in FileNames |-> << Line("columns", "", HeaderChunks(maxlengths), <<>>) >>])
  /\ pc' = "a_adjust"
  /\ UNCHANGED <<opts, board, sch, comps, comps_hash, order, idx, modules,
                 maxlengths, ri, events>>

AsciiAdjust ==
  /\ pc = "a_adjust"
  /\ maxlengths' = AdjustedSizes(maxlengths)
  /\ ri' = 1
  /\ pc' = "a_rows"
  /\ UNCHANGED <<opts, board, sch, comps, comps_hash, order, idx, modules,
                 files, events>>

\* One iteration of "for m in modulesStr".
AsciiRow ==
  /\ pc = "a_rows"
  /\ ri <= Len(modules)
  /\ LET m == modules[ri] IN
       files' = [files EXCEPT ![FileOf(m)] =
                   Written(@, << Line("row", "", RowChunks(m, maxlengths), m) >>)]
  /\ ri' = ri + 1
  /\ UNCHANGED <<opts, board, sch, pc, comps, comps_hash, order, idx, modules,
                 maxlengths, events>>

AsciiEnd ==
  /\ pc = "a_rows"
  /\ ri > Len(modules)
  /\ WriteAll([n \in FileNames |-> << Line("end", "## End\n", <<>>, <<>>) >>])
  /\ pc' = "close"
  /\ UNCHANGED <<opts, board, sch, comps, comps_hash, order, idx, modules,
                 maxlengths, ri, events>>

CsvHeader ==
  /\ pc = "c_head"
  /\ WriteAll([n \in FileNames |-> << Line("columns", "", <<CsvHeaderText>>, <<>>) >>])
  /\ ri' = 1
  /\ pc' = "c_rows"
  /\ UNCHANGED <<opts, board, sch, comps, comps_hash, order, idx, modules,
                 maxlengths, events>>

CsvRow ==
  /\ pc = "c_rows"
  /\ ri <= Len(modules)
  /\ LET m == modules[ri] IN
       files' = [files EXCEPT ![FileOf(m)] =
                   Written(@, << Line("row", "", <<CsvRowText(m)>>, m) >>)]
  /\ ri' = ri + 1
  /\ UNCHANGED <<opts, board, sch, pc, comps, comps_hash, order, idx, modules,
                 maxlengths, events>>

CsvRowsDone ==
  /\ pc = "c_rows"
  /\ ri > Len(modules)
  /\ pc' = "close"
  /\ UNCHANGED <<opts, board, sch, comps, comps_hash, order, idx, modules,
                 maxlengths, ri, files, events>>

\* Mutant: the bottom file is left open.
CloseFilesButBottom ==
  /\ pc = "close"
  /\ files' = [n \in FileNames |->
                 IF InFiles(n) /\ n # "bot" THEN Closed(files[n]) ELSE files[n]]
  /\ pc' = "done"
  /\ UNCHANGED <<opts, board, sch, comps, comps_hash, order, idx, modules,
                 maxlengths, ri, events>>

\* topf.close() / botf.close() / bothf.close() for the ones not None.
CloseFiles ==
  /\ pc = "close"
  /\ files' = [n \in FileNames |->
                 IF InFiles(n) THEN Closed(files[n]) ELSE files[n]]
  /\ pc' = "done"
  /\ UNCHANGED <<opts, board, sch, comps, comps_hash, order, idx, modules,
                 maxlengths, ri, events>>

\* A write() raises (the filesystem's error); run ends with the files open.
WriteFails ==
  /\ pc \in {"a_head", "a_side", "a_cols", "a_rows", "c_head", "c_rows"}
  /\ pc' = "raised"
  /\ UNCHANGED <<opts, board, sch, comps, comps_hash, order, idx, modules,
                 maxlengths, ri, files, events>>

Next ==
  \/ LoadSch \/ NoSch \/ ApplyFittedFilter \/ ApplyVariant \/ BuildHash
  \/ SortBoard \/ Examine \/ FindMaxLengths
  \/ OpenSeparate \/ OpenBoth \/ OpenFails
  \/ AsciiHeader \/ AsciiSide \/ AsciiColumns \/ AsciiAdjust \/ AsciiRow
  \/ AsciiEnd \/ CsvHeader \/ CsvRow \/ CsvRowsDone \/ CloseFiles
  \/ WriteFails

\* ------------------------------------------------------------ inputs
SeqsUpTo(S, n) == UNION {[1..k -> S] : k \in 0..n}

InitWith(Options, Boards, Schematics) ==
  /\ opts \in Options
  /\ board \in Boards
  /\ sch \in Schematics
  /\ pc = "start"
  /\ comps = [loaded |-> FALSE, list |-> <<>>]
  /\ comps_hash = <<>>
  /\ order = <<>>
  /\ idx = 1
  /\ modules = <<>>
  /\ maxlengths = [col \in 1..colcount |-> 0]
  /\ ri = 1
  /\ files = [n \in FileNames |-> NoFile]
  /\ events = <<>>

\* Strings used as inputs.
R1 == <<"R", "1">>
R2 == <<"R", "2">>
R10 == <<"R", "1", "0">>
C1 == <<"C", "1">>
U100 == <<"U", "1", "0", "0">>
V_1k == <<"1", "k">>
P_0805 == <<"0", "8", "0", "5">>

Footprint(ref, value, package, x, y, rot, flipped, attr) ==
  [ref |-> ref, value |-> value, package |-> package, x |-> x, y |-> y,
   rot |-> rot, flipped |-> flipped, attr |-> attr]

Component(ref, in_bom, dnf, var) ==
  [ref |-> ref, in_bom |-> in_bom, dnf |-> dnf, var |-> var]

Options(format, separate, only_smd, units, variant, dnf_filter) ==
  [format |-> format, separate_files_for_front_and_back |-> separate,
   only_smd |-> only_smd, units |-> units, variant |-> variant,
   dnf_filter |-> dnf_filter]

Formats == {"ASCII", "CSV"}
Units == {"millimeters", "inches"}
Attributes == {UI_THT, UI_SMD, UI_VIRTUAL}

\* Every side and mount attribute, every option that selects or routes rows.
RunOptions ==
  {Options(f, s, o, "millimeters", v, d) :
     f \in Formats, s \in BOOLEAN, o \in BOOLEAN, v \in BOOLEAN, d \in BOOLEAN}
RunFootprints ==
  {Footprint(R1, V_1k, P_0805, 1500000, 2540000, 900000, fl, a) :
     fl \in BOOLEAN, a \in Attributes}
RunComponents == {Component(R1, TRUE, TRUE, FALSE)}

Init == InitWith(RunOptions, SeqsUpTo(RunFootprints, MaxModules),
                 SeqsUpTo(RunComponents, MaxComps))
Spec == Init /\ [][Next]_vars

\* References whose order as strings differs from their order as numbers.
V_100nF == <<"1", "0", "0", "n", "F">>
V_comma == <<"1", ",", "5">>
V_quote == <<"5", "\"">>
V_quote_comma == <<"\"", ",", "\"">>
P_SOT == <<"S", "O", "T", "-", "2", "3", "-", "5">>

SortOptions ==
  {Options(f, s, TRUE, "millimeters", v, d) :
     f \in Formats, s \in BOOLEAN, v \in BOOLEAN, d \in BOOLEAN}
SortFootprints ==
  {Footprint(r, V_1k, P_0805, 1500000, 2540000, 0, fl, UI_SMD) :
     r \in {C1, R1, R10, R2}, fl \in BOOLEAN}

InitSort == InitWith(SortOptions, SeqsUpTo(SortFootprints, MaxModules),
                     {<<>>, <<Component(R2, TRUE, TRUE, FALSE)>>})
SpecSort == InitSort /\ [][Next]_vars

\* Values shorter and longer than the column names, both units.
WidthOptions ==
  {Options(f, s, TRUE, u, v, v) :
     f \in Formats, s \in BOOLEAN, u \in Units, v \in BOOLEAN}
WidthFootprints ==
  {Footprint(r, V_1k, P_0805, 0, 0, 0, fl, UI_SMD) :
     r \in {R1, R10, U100}, fl \in BOOLEAN}
  \cup
  {Footprint(r, V_100nF, P_SOT, -123456789, 25400000, 1800000, fl, UI_SMD) :
     r \in {R1, R10, U100}, fl \in BOOLEAN}

InitWidth == InitWith(WidthOptions, SeqsUpTo(WidthFootprints, MaxModules),
                      {<<>>, <<Component(R10, TRUE, TRUE, FALSE)>>})
SpecWidth == InitWidth /\ [][Next]_vars

\* Values holding a comma, a double quote, or both.
CsvOptions ==
  {Options(f, s, TRUE, "millimeters", v, v) :
     f \in Formats, s \in BOOLEAN, v \in BOOLEAN}
CsvFootprints ==
  {Footprint(R1, val, P_0805, 1500000, 2540000, 900000, fl, UI_SMD) :
     val \in {V_1k, V_comma, V_quote, V_quote_comma}, fl \in BOOLEAN}

InitCsv == InitWith(CsvOptions, SeqsUpTo(CsvFootprints, MaxModules), {<<>>})
SpecCsv == InitCsv /\ [][Next]_vars

\* Schematics with repeated references, every filter verdict and BOM flag.
FittedOptions ==
  {Options(f, s, TRUE, "millimeters", v, d) :
     f \in Formats, s \in BOOLEAN, v \in BOOLEAN, d \in BOOLEAN}
FittedFootprints ==
  {Footprint(R1, V_1k, P_0805, 1500000, 2540000, 0, FALSE, UI_SMD)}
FittedComponents ==
  {Component(r, b, mark[1], mark[2]) :
     r \in {R1, R2}, b \in BOOLEAN,
     mark \in {<<FALSE, FALSE>>, <<TRUE, FALSE>>, <<FALSE, TRUE>>}}

InitFitted == InitWith(FittedOptions, SeqsUpTo(FittedFootprints, MaxModules),
                       SeqsUpTo(FittedComponents, MaxComps))
SpecFitted == InitFitted /\ [][Next]_vars

\* ------------------------------------------------------------ properties
IsPrefix(a, b) == Len(a) <= Len(b) /\ SubSeq(b, 1, Len(a)) = a

RowLines(n) == LET IsRow(l) == l.kind = "row" IN SelectSeq(files[n].lines, IsRow)

\* The rows (lists of seven strings) a file has received, in order.
RowsIn(n) == [i \in 1..Len(RowLines(n)) |-> RowLines(n)[i].row]

HasFilters == opts.dnf_filter \/ opts.variant

\* The footprints the loop of run has been through.
Examined == SubSeq(order, 1, idx - 1)

\* C1: in every output file the data rows are in non-decreasing order of the
\* reference string, and they are taken in order from the rows built from
\* the footprints sorted by GetReference().
C1_RowsSortedByReference ==
  /\ \A i, j \in 1..Len(modules) : i < j => StrLE(modules[i][1], modules[j][1])
  /\ \A n \in FileNames :
       /\ \A i, j \in 1..Len(RowsIn(n)) :
            i < j => StrLE(RowsIn(n)[i][1], RowsIn(n)[j][1])
       /\ \A i \in 1..Len(RowLines(n)) :
            IF opts.format = "ASCII"
            THEN IsPrefix(RowsIn(n)[i][1], RowLines(n)[i].chunks[1])
            ELSE IsPrefix(Quoted(RowsIn(n)[i][1]), RowLines(n)[i].chunks[1])

\* A file holds two rows with different references that the board listed in
\* the opposite order.
C1_Witness ==
  /\ pc = "done"
  /\ Len(board) = 2
  /\ board[1].ref # board[2].ref
  /\ StrLE(board[2].ref, board[1].ref)
  /\ \E n \in FileNames : Len(RowsIn(n)) = 2

\* The largest length of column k over all the rows built by run.
DataMax(k) ==
  LET lens == {Len(modules[i][k]) : i \in 1..Len(modules)} \cup {0}
  IN  CHOOSE v \in lens : \A w \in lens : w <= v

DataMaxSizes == [k \in 1..colcount |-> DataMax(k)]

AllLines ==
  UNION {{files[n].lines[i] : i \in 1..Len(files[n].lines)} : n \in FileNames}

AsciiLines(kind) == {l \in AllLines : opts.format = "ASCII" /\ l.kind = kind}

\* C2 as stated: in ASCII mode every column of the column-header row and of
\* every data row is padded to the largest length of that column's values.
C2_Original ==
  /\ \A l \in AsciiLines("columns") : l.chunks = HeaderChunks(DataMaxSizes)
  /\ \A l \in AsciiLines("row") : l.chunks = RowChunks(l.row, DataMaxSizes)

\* C2 amended: the column-header row pads each column to the largest length
\* of that column over all the rows built by run (whichever file they go
\* to); a data row pads columns 2..7 to the same width and its first column
\* to that width plus 2.
C2_Amended ==
  /\ \A l \in AsciiLines("columns") : l.chunks = HeaderChunks(DataMaxSizes)
  /\ \A l \in AsciiLines("row") :
       l.chunks = RowChunks(l.row, [DataMaxSizes EXCEPT ![1] = DataMax(1) + 2])

\* Two rows of different lengths in separate files: the top file's widths
\* come from the bottom file's longer row.
C2_Witness ==
  /\ pc = "done"
  /\ opts.format = "ASCII"
  /\ Len(RowsIn("top")) = 1 /\ Len(RowsIn("bot")) = 1
  /\ Len(RowsIn("top")[1][1]) < Len(RowsIn("bot")[1][1])
  /\ Len(RowsIn("top")[1][2]) < Len(RowsIn("bot")[1][2])

\* Number of fields a CSV reader finds in a line: a comma separates fields
\* unless it is inside a quoted field, where "" stands for one quote.
RECURSIVE CsvFields(_, _)
CsvFields(text, st) ==
  IF text = <<>> THEN 1
  ELSE LET c == Head(text)
           rest == Tail(text)
       IN  CASE st = "start" ->
                  IF c = "\"" THEN CsvFields(rest, "quoted")
                  ELSE IF c = "," THEN 1 + CsvFields(rest, "start")
                  ELSE CsvFields(rest, "plain")
             [] st = "plain" ->
                  IF c = "," THEN 1 + CsvFields(rest, "start")
                  ELSE CsvFields(rest, "plain")
             [] st = "quoted" ->
                  IF c = "\"" THEN CsvFields(rest, "quote")
                  ELSE CsvFields(rest, "quoted")
             [] st = "quote" ->
                  IF c = "\"" THEN CsvFields(rest, "quoted")
                  ELSE IF c = "," THEN 1 + CsvFields(rest, "start")
                  ELSE CsvFields(rest, "plain")

\* C3: in CSV mode every data line has as many fields as the header line of
\* its file, seven, whatever the values hold.
C3_CsvFieldCount ==
  opts.format = "CSV" =>
    \A n \in FileNames : \A i \in 1..Len(files[n].lines) :
      LET l == files[n].lines[i] IN
        /\ l.kind = "columns" => CsvFields(l.chunks[1], "start") = colcount
        /\ l.kind = "row" =>
             CsvFields(l.chunks[1], "start") =
               CsvFields(files[n].lines[1].chunks[1], "start")

\* The last component of the list with the reference of footprint m.
LastMatch(m) ==
  CHOOSE i \in 1..Len(comps.list) :
    /\ comps.list[i].ref = m.ref
    /\ \A j \in 1..Len(comps.list) : comps.list[j].ref = m.ref => j <= i

HasMatch(m) == \E i \in 1..Len(comps.list) : comps.list[i].ref = m.ref

MountOK(m) == IF opts.only_smd THEN m.attr = UI_SMD ELSE m.attr # UI_VIRTUAL

RowsOf(ms) == [i \in 1..Len(ms) |-> Row(ms[i])]

\* C4 as stated: with a dnf_filter or a variant, no row has the reference of
\* a schematic component that is not fitted.
C4_Original ==
  HasFilters =>
    \A i \in 1..Len(modules) : \A j \in 1..Len(comps.list) :
      comps.list[j].ref = modules[i][1] => comps.list[j].fitted

\* C4 amended: with a dnf_filter or a variant, a footprint is left out when
\* the last schematic component with its reference is not fitted; one whose
\* last such component is fitted, or that has none, is kept; the in-BOM flag
\* plays no part; with neither option no footprint is left out.
C4_Amended ==
  LET Kept(m) == /\ MountOK(m)
                 /\ ~(HasFilters /\ HasMatch(m) /\ ~comps.list[LastMatch(m)].fitted)
  IN  modules = RowsOf(SelectSeq(Examined, Kept))

\* Two components share the footprint's reference, the first not fitted and
\* the last fitted and out of the BOM, and the footprint has its row.
C4_Witness ==
  /\ pc = "done"
  /\ HasFilters
  /\ Len(comps.list) = 2
  /\ comps.list[1].ref = R1 /\ comps.list[2].ref = R1
  /\ ~comps.list[1].fitted
  /\ comps.list[2].fitted /\ ~comps.list[2].in_bom
  /\ Len(board) = 1
  /\ Len(modules) = 1

\* C5: a footprint that passes the fitted-state check gets a row iff it is
\* SMD (only_smd) or not virtual (otherwise).
C5_MountSelection ==
  LET Kept(m) == ~NotFitted(m) /\ MountOK(m)
  IN  modules = RowsOf(SelectSeq(Examined, Kept))

\* A through-hole footprint has its row while a virtual one has none.
C5_Witness ==
  /\ pc = "done"
  /\ ~opts.only_smd
  /\ Len(board) = 2
  /\ {board[1].attr, board[2].attr} = {UI_THT, UI_VIRTUAL}
  /\ Len(modules) = 1

\* The rows written so far, and the ones among them whose last column is
\* "top" or is not.
WrittenRows == SubSeq(modules, 1, ri - 1)
TopRows == LET IsTop(m) == m[colcount] = S_top IN SelectSeq(WrittenRows, IsTop)
BottomRows == LET NotTop(m) == m[colcount] # S_top IN SelectSeq(WrittenRows, NotTop)

\* C6: every row is written once, to the top file iff its side is "top" and
\* to the bottom file otherwise when the files are separate, to the single
\* file when they are not; when run is done every row has been written.
C6_RowRouting ==
  /\ opts.separate_files_for_front_and_back =>
       RowsIn("top") = TopRows /\ RowsIn("bot") = BottomRows /\ RowsIn("both") = <<>>
  /\ ~opts.separate_files_for_front_and_back =>
       RowsIn("both") = WrittenRows /\ RowsIn("top") = <<>> /\ RowsIn("bot") = <<>>
  /\ pc = "done" => WrittenRows = modules
  /\ \A n \in FileNames : \A i \in 1..Len(RowLines(n)) :
       RowLines(n)[i].chunks =
         IF opts.format = "ASCII" THEN RowChunks(RowsIn(n)[i], maxlengths)
         ELSE <<CsvRowText(RowsIn(n)[i])>>

\* Both formats end with a top row in the top file and a bottom row in the
\* bottom file.
C6_Witness ==
  /\ pc = "done"
  /\ opts.separate_files_for_front_and_back
  /\ Len(RowsIn("top")) = 1 /\ Len(RowsIn("bot")) = 1
  /\ RowsIn("top")[1][colcount] = S_top
  /\ RowsIn("bot")[1][colcount] = S_bottom

\* The calls of a whole run, in the order of the flow.
ExpectedEvents ==
  (IF HasFilters
   THEN <<"load_sch", "fitted_filter">> \o
        (IF opts.variant THEN <<"variant_filter">> ELSE <<>>)
   ELSE <<>>) \o
  [i \in 1..Len(board) |-> "examine"] \o
  (IF opts.separate_files_for_front_and_back THEN <<"open", "open">>
   ELSE <<"open">>)

\* C7: the schematic is loaded iff a dnf_filter or a variant is set; the
\* not-fitted filter comes before the variant, both before any footprint is
\* examined, and every row is built before a file is opened or written.
C7_FlowOrder ==
  /\ IsPrefix(events, ExpectedEvents)
  /\ pc = "done" => events = ExpectedEvents
  /\ pc # "start" => (comps.loaded <=> HasFilters)
  /\ \A n \in FileNames :
       (files[n].st # "none" \/ files[n].lines # <<>>) =>
         /\ Len(order) = Len(board)
         /\ idx = Len(board) + 1
         /\ pc \notin {"start", "fitted", "variant", "hash", "sort", "examine"}

\* A run with both a filter and a variant over two footprints is done.
C7_Witness ==
  /\ pc = "done"
  /\ opts.dnf_filter /\ opts.variant
  /\ Len(board) = 2
  /\ Len(modules) >= 1

Kinds(n) == [i \in 1..Len(files[n].lines) |-> files[n].lines[i].kind]
AsciiHead == <<"created", "printed", "unit", "side", "columns">>

\* C9: in ASCII mode each file receives the creation comment, the 'Printed
\* by' line, the unit line, its own side line, the column header, its data
\* rows and then '## End' once, as the last line; a finished run has given
\* every opened file the header lines and '## End'.
C9_AsciiLineOrder ==
  opts.format = "ASCII" =>
    \A n \in FileNames :
      LET ks == Kinds(n) IN
        /\ \A i \in 1..Len(ks) :
             /\ i <= Len(AsciiHead) => ks[i] = AsciiHead[i]
             /\ i > Len(AsciiHead) => ks[i] \in {"row", "end"}
             /\ ks[i] = "end" => i = Len(ks)
             /\ ks[i] = "side" =>
                  files[n].lines[i].text =
                    (IF n = "top" THEN "top" ELSE IF n = "bot" THEN "bottom" ELSE "both")
             /\ ks[i] = "unit" =>
                  files[n].lines[i].text =
                    (IF opts.units = "millimeters" THEN "mm" ELSE "in")
        /\ (pc \in {"close", "done"} /\ files[n].opens > 0) =>
             /\ Len(ks) > Len(AsciiHead)
             /\ ks[Len(ks)] = "end"
        /\ files[n].opens = 0 => ks = <<>>

\* A finished ASCII run whose bottom file holds the header and '## End' only,
\* while the top file holds a row.
C9_Witness ==
  /\ pc = "done"
  /\ opts.format = "ASCII"
  /\ Kinds("bot") = AsciiHead \o <<"end">>
  /\ Kinds("top") = AsciiHead \o <<"row", "end">>

\* C10: run opens the top and the bottom file, or the single file, each
\* once; nothing is written to a file that is not open; a run that ends
\* without an error has closed each file it opened, once.
C10_FileLifecycle ==
  /\ \A n \in FileNames :
       /\ files[n].bad = 0
       /\ files[n].opens <= 1
       /\ files[n].closes <= files[n].opens
       /\ files[n].st = "none" <=> files[n].opens = 0
  /\ pc \notin {"start", "fitted", "variant", "hash", "sort", "examine",
                "plot", "raised"} =>
       IF opts.separate_files_for_front_and_back
       THEN /\ files["top"].opens = 1 /\ files["bot"].opens = 1
            /\ files["both"].opens = 0
       ELSE /\ files["both"].opens = 1
            /\ files["top"].opens = 0 /\ files["bot"].opens = 0
  /\ pc = "done" =>
       \A n \in FileNames :
         /\ files[n].closes = files[n].opens
         /\ files[n].st \in {"none", "closed"}

\* A finished run closed a bottom file that received no row.
C10_Witness ==
  /\ pc = "done"
  /\ opts.separate_files_for_front_and_back
  /\ RowsIn("bot") = <<>> /\ RowsIn("top") # <<>>
  /\ files["bot"].st = "closed" /\ files["top"].st = "closed"

\* Offset in its line of the write() argument number c.
RECURSIVE ChunkStart(_, _)
ChunkStart(chunks, c) ==
  IF c <= 1 THEN 0 ELSE ChunkStart(chunks, c - 1) + Len(chunks[c - 1])

\* C8: in ASCII mode columns 2..7 of the column-header line start at the
\* offsets at which they start in every data row of the file (the first
\* column starts the line, with the "# " of the header inside it).
C8_ColumnsAligned ==
  opts.format = "ASCII" =>
    \A n \in FileNames : \A i, j \in 1..Len(files[n].lines) :
      (files[n].lines[i].kind = "columns" /\ files[n].lines[j].kind = "row") =>
        \A k \in 2..colcount :
          ChunkStart(files[n].lines[i].chunks, 2 * k) =
            ChunkStart(files[n].lines[j].chunks, 2 * k - 1)
====
